---- MODULE Spec2Model ----
(***************************************************************************)
(* Model of the sem expense ledger: the CRUD handler of                    *)
(* modules/crud_handler.py (PostgreSQL, used by modules/api.py) and the    *)
(* earlier handler of modules/crud.py (SQLite, used by modules/main.py),   *)
(* both seen through the SQLAlchemy session they own.                       *)
(*                                                                         *)
(* A session keeps three layers of rows:                                    *)
(*   store    rows committed to the expenses table                          *)
(*   txn      rows INSERTed by a flush of the open transaction, not yet     *)
(*            committed (visible to this session's own SELECTs)             *)
(*   pending  objects handed to Session.add() and not flushed yet          *)
(* Every SELECT / bulk DELETE autoflushes pending first, commit() flushes  *)
(* and then commits, close() and a failed flush roll everything back.      *)
(***************************************************************************)
EXTENDS Integers, Sequences, FiniteSets, TLC

VARIABLES
    impl,     \* which handler class runs: "crud_handler" or "crud"
    store,    \* committed rows of the expenses table
    seq,      \* last value handed out by expenses_id_seq (0: none yet)
    db,       \* self.db, the session: "active", or "inactive" after a failed autoflush
    pending,  \* objects added to the session and not flushed yet (in add order)
    txn,      \* rows flushed in the open transaction, not committed
    last,     \* the last call on the handler: its name, arguments and outcome
    erased,   \* history: a clear has discarded ids handed out by expenses_id_seq
    csv,      \* the records of the CSV file save wrote last (None: not written)
    saved,    \* history: the table when the save that wrote csv was called
    pc,       \* where the API request is in get_ch: "idle" (none) or "yield"
    closes,   \* how often get_ch has closed the handler of the last request
    outcome   \* history: what the endpoint of the last request raised

vars == <<impl, store, seq, db, pending, txn, last, erased, csv, saved, pc, closes, outcome>>

-----------------------------------------------------------------------------
(* Bounds *)

MaxRows == 2      \* rows the table may hold (committed, flushed and staged)
MaxSeq == 2       \* largest id the model lets the store hand out

\* Python's None and a present value v of an Optional: the empty set and {v}.
None == {}
Some(v) == {v}
The(o) == CHOOSE v \in o : TRUE

\* The outcome of a call that raised nothing.
Ok == "ok"

Dates == {1, 2}            \* days of one month
Types == {"R", "C"}
Categories == {"gen", "test"}
Amounts == {1, 2}
Descriptions == {"d"}
Ids == 1..MaxSeq

\* Alphabetical order of the strings the model uses (ORDER BY on a text column).
TypeOrder == <<"C", "R">>
CategoryOrder == <<"gen", "test">>

Rank(order, x) == CHOOSE i \in DOMAIN order : order[i] = x

-----------------------------------------------------------------------------
(* Values and their textual forms *)

\* ExpenseBase / ExpenseAdd: the payload of add, every field present.
ExpenseAdd == [date : Dates, type : Types, category : Categories,
               amount : Amounts, description : Descriptions]

\* QueryParameters: four optional filters; types and categories are lists,
\* seen here as the sets of their elements.
\* The windows tried: no bound, one bound alone, and every window of Dates.
Windows ==
    {<<None, None>>, <<Some(1), None>>, <<None, Some(1)>>}
    \cup { <<Some(a), Some(b)>> : a, b \in Dates }
QueryParameters ==
    { [start |-> w[1], end |-> w[2], types |-> t, categories |-> c] :
        w \in Windows, t \in {None, Some({"R"})}, c \in {None, Some({"gen"})} }

\* date.isoformat(): YYYY-MM-DD, the day zero-padded.
DateText(d) == IF d < 10 THEN "2023-12-0" \o ToString(d) ELSE "2023-12-" \o ToString(d)

\* str2date: strptime(arg, "%Y-%m-%d").date(), which raises ValueError when
\* arg is not a date in that format.
IsDateText(arg) == \E d \in Dates : DateText(d) = arg
str2date(arg) == CHOOSE d \in Dates : DateText(d) = arg

\* repr of a float amount, as csv writes it and as the store parses it back.
AmountText(a) == ToString(a) \o ".0"
IsAmountText(t) == \E a \in Amounts : AmountText(a) = t
ParseAmount(t) == CHOOSE a \in Amounts : AmountText(a) = t

-----------------------------------------------------------------------------
(* The session *)

\* The rows of the expenses table as this session's statements see them.
Table == store \cup txn

\* A staged object can be INSERTed when the store accepts its amount text.
Flushable(p) == \A i \in DOMAIN p : IsAmountText(p[i].amount)

\* Session.flush(): one INSERT per staged object, in the order of Session.add();
\* the store draws each id from expenses_id_seq.
FlushRows(p, n) ==
    { [id |-> n + i, date |-> p[i].date, type |-> p[i].type,
       category |-> p[i].category, amount |-> ParseAmount(p[i].amount),
       description |-> p[i].description] : i \in DOMAIN p }

\* The sequence values a failed INSERT batch may have consumed: the store
\* does not say whether nextval ran for the records before the rejected one.
FailedFlushSeqs(p, n) == n .. (n + Len(p))

Room(k) == /\ Cardinality(Table) + Len(pending) + k <= MaxRows
           /\ seq + Len(pending) + k <= MaxSeq

\* A flush that fails (in an autoflush or in commit) leaves the session
\* inactive: its transaction is rolled back, the staged objects are expunged
\* and every later statement raises until the session is reset.
FlushFails(op, args) ==
    /\ \E n \in FailedFlushSeqs(pending, seq) : seq' = n
    /\ pending' = <<>>
    /\ txn' = {}
    /\ db' = "inactive"
    /\ last' = [op |-> op, args |-> args, raised |-> "DataError"]
    /\ UNCHANGED <<impl, pc, closes, outcome, csv, saved, erased, store>>

Inactive(op, args) ==
    /\ last' = [op |-> op, args |-> args, raised |-> "PendingRollbackError"]
    /\ UNCHANGED <<impl, pc, closes, outcome, csv, saved, erased, store, seq, db, pending, txn>>

Init ==
    /\ impl \in {"crud_handler", "crud"}
    /\ store = {}
    /\ seq = 0
    /\ db = "active"
    /\ pending = <<>>
    /\ txn = {}
    /\ last = [op |-> "__init__", args |-> None, raised |-> Ok]
    /\ erased = FALSE
    /\ csv = None
    /\ saved = None
    /\ pc = "idle"
    /\ closes = 0
    /\ outcome = "none"

-----------------------------------------------------------------------------
(* modules/crud_handler.py *)

\* CRUDHandler.__init__: create_all only creates what is missing; a new Session.
CRUDHandler_init ==
    /\ pending' = <<>>
    /\ txn' = {}
    /\ db' = "active"
    /\ last' = [op |-> "__init__", args |-> None, raised |-> Ok]
    /\ UNCHANGED <<impl, csv, saved, erased, store, seq>>

init ==
    /\ impl = "crud_handler"
    /\ CRUDHandler_init
    /\ UNCHANGED <<pc, closes, outcome>>

\* CRUDHandler.close: Session.close() rolls the open transaction back and
\* expunges every object; the session can be used again afterwards.
CRUDHandler_close ==
    /\ pending' = <<>>
    /\ txn' = {}
    /\ db' = "active"
    /\ last' = [op |-> "close", args |-> None, raised |-> Ok]
    /\ UNCHANGED <<impl, csv, saved, erased, store, seq>>

close ==
    /\ impl = "crud_handler"
    /\ CRUDHandler_close
    /\ UNCHANGED <<pc, closes, outcome>>

\* Mutant: add ends with "return new_expense".
add_return_row(row) == Some(row)

\* What add hands back to its caller: the method has no return statement.
add_return(row) == None

\* CRUDHandler.add: Session.add, commit, refresh.
add ==
    /\ impl = "crud_handler"
    /\ \E data \in ExpenseAdd :
        IF db = "inactive"
        THEN Inactive("add", data)
        ELSE IF ~Flushable(pending) THEN FlushFails("add", data)
        ELSE /\ Room(1)
             /\ LET new == [id |-> seq + Len(pending) + 1, date |-> data.date,
                            type |-> data.type, category |-> data.category,
                            amount |-> data.amount, description |-> data.description]
                IN /\ store' = store \cup txn \cup FlushRows(pending, seq) \cup {new}
                   /\ seq' = new.id
                   /\ last' = [op |-> "add", args |-> data, raised |-> Ok,
                               ret |-> add_return(new)]
             /\ pending' = <<>>
             /\ txn' = {}
             /\ UNCHANGED <<impl, pc, closes, outcome, csv, saved, erased, db>>

\* Mutant: the window excludes its end date.
date_condition_open_end(params, r) ==
    IF params.start = None \/ params.end = None
    THEN TRUE
    ELSE The(params.start) <= r.date /\ r.date < The(params.end)

\* Mutant: the types filter is never applied.
type_condition_dropped(params, r) == TRUE

\* The WHERE clauses query and summarize build from the parameters.
date_condition(params, r) ==
    IF params.start = None \/ params.end = None
    THEN TRUE
    ELSE The(params.start) <= r.date /\ r.date <= The(params.end)

type_condition(params, r) ==
    IF params.types = None THEN TRUE ELSE r.type \in The(params.types)

cat_condition(params, r) ==
    IF params.categories = None THEN TRUE ELSE r.category \in The(params.categories)

Where(params, rows) ==
    { r \in rows : /\ date_condition(params, r)
                   /\ type_condition(params, r)
                   /\ cat_condition(params, r) }

\* Mutant: the rows come back in primary-key order.
OrderById(rows) ==
    { s \in [1..Cardinality(rows) -> rows] :
        \A i, j \in DOMAIN s : i < j => s[i].id < s[j].id }

\* ORDER BY date: every listing of the rows by non-decreasing date; the store
\* does not fix the order of rows of equal date.
OrderByDate(rows) ==
    { s \in [1..Cardinality(rows) -> rows] :
        /\ \A i, j \in DOMAIN s : i # j => s[i] # s[j]
        /\ \A i, j \in DOMAIN s : i < j => s[i].date <= s[j].date }

\* CRUDHandler.query
query ==
    /\ impl = "crud_handler"
    /\ \E params \in QueryParameters :
        IF db = "inactive" THEN Inactive("query", params)
        ELSE IF ~Flushable(pending) THEN FlushFails("query", params)
        ELSE /\ txn' = txn \cup FlushRows(pending, seq)
             /\ seq' = seq + Len(pending)
             /\ pending' = <<>>
             /\ \E ret \in OrderByDate(Where(params, store \cup txn')) :
                    last' = [op |-> "query", args |-> params, raised |-> Ok, ret |-> ret]
             /\ UNCHANGED <<impl, pc, closes, outcome, csv, saved, erased, store, db>>

RECURSIVE SumAmount(_)
SumAmount(rows) ==
    IF rows = {} THEN 0
    ELSE LET r == CHOOSE x \in rows : TRUE IN r.amount + SumAmount(rows \ {r})

\* Mutant: the sum is taken over a group of the type alone.
GroupRows_by_type(g, rows) == { r \in rows : r.type = g[2] }

\* GROUP BY category, type: the groups, and the rows of one group.
GroupBy(rows) == { <<r.category, r.type>> : r \in rows }
GroupRows(g, rows) == { r \in rows : r.category = g[1] /\ r.type = g[2] }

\* ORDER BY category, type
GroupBefore(g, h) ==
    \/ Rank(CategoryOrder, g[1]) < Rank(CategoryOrder, h[1])
    \/ /\ g[1] = h[1]
       /\ Rank(TypeOrder, g[2]) < Rank(TypeOrder, h[2])

OrderByGroup(groups) ==
    CHOOSE s \in [1..Cardinality(groups) -> groups] :
        \A i, j \in DOMAIN s : i < j => GroupBefore(s[i], s[j])

\* The select list of summarize: select(Expense.type, func.sum(Expense.amount)).
summarize_select(g, rows) == [type |-> g[2], sum |-> SumAmount(GroupRows(g, rows))]

summarize_result(params, rows) ==
    LET found == Where(params, rows)
        order == OrderByGroup(GroupBy(found))
    IN [i \in DOMAIN order |-> summarize_select(order[i], found)]

\* CRUDHandler.summarize
summarize ==
    /\ impl = "crud_handler"
    /\ \E params \in QueryParameters :
        IF db = "inactive" THEN Inactive("summarize", params)
        ELSE IF ~Flushable(pending) THEN FlushFails("summarize", params)
        ELSE /\ txn' = txn \cup FlushRows(pending, seq)
             /\ seq' = seq + Len(pending)
             /\ pending' = <<>>
             /\ last' = [op |-> "summarize", args |-> params, raised |-> Ok,
                         ret |-> summarize_result(params, store \cup txn')]
             /\ UNCHANGED <<impl, pc, closes, outcome, csv, saved, erased, store, db>>

\* Mutant: clear deletes the rows and leaves the sequence where it is.
clear_no_restart ==
    /\ impl = "crud_handler"
    /\ IF db = "inactive" THEN Inactive("clear", None)
       ELSE IF ~Flushable(pending) THEN FlushFails("clear", None)
       ELSE /\ store' = {}
            /\ txn' = {}
            /\ pending' = <<>>
            /\ seq' = seq + Len(pending)
            /\ erased' = (erased \/ seq + Len(pending) > 0)
            /\ last' = [op |-> "clear", args |-> None, raised |-> Ok]
            /\ UNCHANGED <<impl, pc, closes, outcome, csv, saved, db>>

\* CRUDHandler.clear (the erase of the API and of the tests): bulk DELETE,
\* ALTER SEQUENCE expenses_id_seq RESTART, commit.
clear ==
    /\ impl = "crud_handler"
    /\ IF db = "inactive" THEN Inactive("clear", None)
       ELSE IF ~Flushable(pending) THEN FlushFails("clear", None)
       ELSE /\ store' = {}
            /\ txn' = {}
            /\ pending' = <<>>
            /\ seq' = 0
            /\ erased' = (erased \/ seq + Len(pending) > 0)
            /\ last' = [op |-> "clear", args |-> None, raised |-> Ok]
            /\ UNCHANGED <<impl, pc, closes, outcome, csv, saved, db>>

\* The CSV records load is given: fields date, type, category, amount,
\* description as text; a record with too few fields, a date in another
\* format and an amount that is no number.
CsvRows ==
    { <<DateText(1), "R", "gen", AmountText(1), "d">>,
      <<DateText(2), "R", "gen", AmountText(2), "d">>,
      <<DateText(1), "R", "gen">>,
      <<"01/12/2023", "R", "gen", AmountText(1), "d">>,
      <<DateText(1), "R", "gen", "abc", "d">> }

\* The files tried: empty, one record, and two records of which the first is
\* accepted when it is staged.
Files ==
    {<<>>} \cup { <<a>> : a \in CsvRows }
    \cup { <<a, b>> : a \in {r \in CsvRows : IsDateText(r[1]) /\ Len(r) = 5}, b \in CsvRows }

\* What building Expense(date=str2date(row[0]), ..., description=row[4])
\* raises for one record, evaluating the arguments left to right.
RowError(row) ==
    IF Len(row) < 1 THEN "IndexError"
    ELSE IF ~IsDateText(row[1]) THEN "ValueError"
    ELSE IF Len(row) < 5 THEN "IndexError"
    ELSE Ok

\* The object load stages for one record; the amount stays text until the
\* store parses it.
RowObject(row) ==
    [date |-> str2date(row[1]), type |-> row[2], category |-> row[3],
     amount |-> row[4], description |-> row[5]]

\* The records load stages before it stops: all of them, or those before
\* the first record that raises.
Staged(file) ==
    LET bad == { i \in DOMAIN file : RowError(file[i]) # Ok }
        n == IF bad = {} THEN Len(file)
             ELSE (CHOOSE i \in bad : \A j \in bad : i <= j) - 1
    IN [i \in 1..n |-> RowObject(file[i])]

LoadError(file) ==
    LET bad == { i \in DOMAIN file : RowError(file[i]) # Ok }
    IN IF bad = {} THEN Ok
       ELSE RowError(file[CHOOSE i \in bad : \A j \in bad : i <= j])

\* CRUDHandler.load: open the file, stage one object per record, commit once.
\* Nothing is rolled back when a record raises.
load ==
    /\ impl = "crud_handler"
    /\ \E csvfile \in {None} \cup {Some(f) : f \in Files} \cup {Some(f) : f \in csv} :
        IF csvfile = None
        THEN /\ last' = [op |-> "load", args |-> csvfile, raised |-> "FileNotFoundError"]
             /\ UNCHANGED <<impl, pc, closes, outcome, csv, saved, erased, store, seq, db, pending, txn>>
        ELSE LET file == The(csvfile)
                 all == pending \o Staged(file)
             IN /\ Cardinality(Table) + Len(all) <= MaxRows
                /\ seq + Len(all) <= MaxSeq
                /\ IF LoadError(file) # Ok
                   THEN /\ pending' = all
                        /\ last' = [op |-> "load", args |-> csvfile,
                                    raised |-> LoadError(file)]
                        /\ UNCHANGED <<impl, pc, closes, outcome, csv, saved, erased, store, seq, db, txn>>
                   ELSE IF db = "inactive"
                   THEN /\ pending' = all
                        /\ last' = [op |-> "load", args |-> csvfile,
                                    raised |-> "PendingRollbackError"]
                        /\ UNCHANGED <<impl, pc, closes, outcome, csv, saved, erased, store, seq, db, txn>>
                   ELSE IF ~Flushable(all)
                   THEN /\ \E n \in FailedFlushSeqs(all, seq) : seq' = n
                        /\ pending' = <<>>
                        /\ txn' = {}
                        /\ db' = "inactive"
                        /\ last' = [op |-> "load", args |-> csvfile, raised |-> "DataError"]
                        /\ UNCHANGED <<impl, pc, closes, outcome, csv, saved, erased, store>>
                   ELSE /\ store' = store \cup txn \cup FlushRows(all, seq)
                        /\ seq' = seq + Len(all)
                        /\ pending' = <<>>
                        /\ txn' = {}
                        /\ last' = [op |-> "load", args |-> csvfile, raised |-> Ok]
                        /\ UNCHANGED <<impl, pc, closes, outcome, csv, saved, erased, db>>

\* The record csv.writer writes for one expense: the date as YYYY-MM-DD, the
\* float amount as Python prints it, the strings as they are.
save_record(ex) ==
    <<DateText(ex.date), ex.type, ex.category, AmountText(ex.amount), ex.description>>

\* CRUDHandler.save: open the file for writing (which empties it), query
\* every expense, write one record per expense in the order of the query.
save ==
    /\ impl = "crud_handler"
    /\ IF db = "inactive"
       THEN /\ csv' = Some(<<>>)
            /\ saved' = None
            /\ last' = [op |-> "save", args |-> None, raised |-> "PendingRollbackError"]
            /\ UNCHANGED <<impl, pc, closes, outcome, erased, store, seq, db, pending, txn>>
       ELSE IF ~Flushable(pending)
       THEN /\ csv' = Some(<<>>)
            /\ saved' = None
            /\ \E n \in FailedFlushSeqs(pending, seq) : seq' = n
            /\ pending' = <<>>
            /\ txn' = {}
            /\ db' = "inactive"
            /\ last' = [op |-> "save", args |-> None, raised |-> "DataError"]
            /\ UNCHANGED <<impl, pc, closes, outcome, erased, store>>
       ELSE /\ txn' = txn \cup FlushRows(pending, seq)
            /\ seq' = seq + Len(pending)
            /\ pending' = <<>>
            /\ \E expenses \in OrderByDate(Where([start |-> None, end |-> None,
                                                   types |-> None, categories |-> None],
                                                  store \cup txn')) :
                  csv' = Some([i \in DOMAIN expenses |-> save_record(expenses[i])])
            /\ saved' = Some(Table)
            /\ last' = [op |-> "save", args |-> None, raised |-> Ok]
            /\ UNCHANGED <<impl, pc, closes, outcome, erased, store, db>>

\* ExpenseUpdate: every field optional. The patches tried: none present, one
\* present, all present.
ExpenseUpdateAll == [date |-> Some(1), type |-> Some("C"), category |-> Some("test"),
                     amount |-> Some(2), description |-> Some("d")]
ExpenseUpdateNone == [f \in DOMAIN ExpenseUpdateAll |-> None]
ExpenseUpdate ==
    {ExpenseUpdateAll, ExpenseUpdateNone}
    \cup { [ExpenseUpdateNone EXCEPT ![f] = ExpenseUpdateAll[f]] : f \in {"date", "amount"} }

\* Mutant: the patch's date is not applied.
Patched_without_date(r, data) ==
    [f \in DOMAIN r |->
        IF f \in DOMAIN data \ {"date"} /\ data[f] # None THEN The(data[f]) ELSE r[f]]

\* The row after the patch: the fields present in the patch are overwritten.
Patched(r, data) ==
    [f \in DOMAIN r |->
        IF f \in DOMAIN data /\ data[f] # None THEN The(data[f]) ELSE r[f]]

\* Mutant: an update of an id that is not stored returns as if it had worked.
update_not_found_silent(args) ==
    /\ last' = [op |-> "update", args |-> args, raised |-> Ok]
    /\ UNCHANGED <<impl, pc, closes, outcome, csv, saved, erased, store, seq, db, pending, txn>>

\* update when no row has the id: the not-found error, nothing changed.
update_not_found(args) ==
    /\ last' = [op |-> "update", args |-> args, raised |-> "CRUDHandlerError"]
    /\ UNCHANGED <<impl, pc, closes, outcome, csv, saved, erased, store, seq, db, pending, txn>>

\* CRUDHandler.update as the specification gives it: look the row up by id
\* among the stored rows; when no row has the id, fail with the not-found
\* error (CRUDHandlerError, the class api.py turns into 404) and change
\* nothing; otherwise overwrite the fields present in the patch and commit.
\* The commit is the session's: it needs a usable session and stores what
\* the session holds.
update ==
    /\ impl = "crud_handler"
    /\ \E ID \in Ids, data \in ExpenseUpdate :
        LET args == <<ID, data>>
            hit == { r \in Table : r.id = ID }
        IN IF hit = {}
           THEN update_not_found(args)
           ELSE IF db = "inactive" THEN Inactive("update", args)
           ELSE IF ~Flushable(pending) THEN FlushFails("update", args)
           ELSE /\ store' = (Table \ hit) \cup { Patched(r, data) : r \in hit }
                              \cup FlushRows(pending, seq)
                /\ seq' = seq + Len(pending)
                /\ pending' = <<>>
                /\ txn' = {}
                /\ last' = [op |-> "update", args |-> args, raised |-> Ok]
                /\ UNCHANGED <<impl, pc, closes, outcome, csv, saved, erased, db>>

\* The id lists remove is given: one id, or two different ids.
IdLists == { <<i>> : i \in Ids } \cup { <<i, j>> : i, j \in Ids }
Range(s) == { s[i] : i \in DOMAIN s }

\* Mutant: the rows listed before the missing id are deleted all the same.
remove_not_found_partial(ids) ==
    /\ store' = { r \in store : r.id \notin Range(ids) }
    /\ txn' = { r \in txn : r.id \notin Range(ids) }
    /\ last' = [op |-> "remove", args |-> ids, raised |-> "CRUDHandlerError"]
    /\ UNCHANGED <<impl, pc, closes, outcome, csv, saved, erased, seq, db, pending>>

\* remove when an id of the list is not stored: the not-found error, nothing
\* deleted.
remove_not_found(ids) ==
    /\ last' = [op |-> "remove", args |-> ids, raised |-> "CRUDHandlerError"]
    /\ UNCHANGED <<impl, pc, closes, outcome, csv, saved, erased, store, seq, db, pending, txn>>

\* Mutant: only the row of the first id is deleted.
remove_rows_first(ids, rows) == { r \in rows : r.id # ids[1] }

\* The rows left when the rows with the listed ids are deleted.
remove_rows(ids, rows) == { r \in rows : r.id \notin Range(ids) }

\* CRUDHandler.remove as the specification gives it: when an id of the list
\* is not among the stored rows, fail with the not-found error and delete
\* nothing; otherwise delete the rows with the listed ids and commit.
remove ==
    /\ impl = "crud_handler"
    /\ \E ids \in IdLists :
        IF \E i \in Range(ids) : i \notin { r.id : r \in Table }
        THEN remove_not_found(ids)
        ELSE IF db = "inactive" THEN Inactive("remove", ids)
        ELSE IF ~Flushable(pending) THEN FlushFails("remove", ids)
        ELSE /\ store' = remove_rows(ids, Table) \cup FlushRows(pending, seq)
             /\ seq' = seq + Len(pending)
             /\ pending' = <<>>
             /\ txn' = {}
             /\ last' = [op |-> "remove", args |-> ids, raised |-> Ok]
             /\ UNCHANGED <<impl, pc, closes, outcome, csv, saved, erased, db>>

-----------------------------------------------------------------------------
(* modules/crud.py, the handler of modules/main.py: an SQLite file, rows   *)
(* id, date, type, amount, justification.                                   *)

crud_ExpenseAdd == [date : Dates, type : Types, amount : Amounts, justification : {"j"}]

MaxId(rows) == IF rows = {} THEN 0 ELSE CHOOSE n \in {r.id : r \in rows} : \A r \in rows : r.id <= n

\* Session.flush() on SQLite: one INSERT per staged object in the order of
\* Session.add(); an object without id gets the largest rowid plus one, an
\* id that is already in the table is rejected (IntegrityError).
RECURSIVE crud_flush(_, _)
crud_flush(p, rows) ==
    IF p = <<>> THEN [ok |-> TRUE, rows |-> rows]
    ELSE LET o == Head(p)
             id == IF o.id = None THEN MaxId(rows) + 1 ELSE The(o.id)
         IN IF \E r \in rows : r.id = id
            THEN [ok |-> FALSE, rows |-> rows]
            ELSE crud_flush(Tail(p),
                     rows \cup {[id |-> id, date |-> o.date, type |-> o.type,
                                 amount |-> ParseAmount(o.amount),
                                 justification |-> o.justification]})

crud_FlushFails(op, args) ==
    /\ pending' = <<>>
    /\ txn' = {}
    /\ db' = "inactive"
    /\ last' = [op |-> op, args |-> args, raised |-> "IntegrityError"]
    /\ UNCHANGED <<impl, pc, closes, outcome, csv, saved, erased, store, seq>>

crud_Room(p) ==
    /\ Cardinality(Table) + Len(p) <= MaxRows
    /\ crud_flush(p, Table).ok => MaxId(crud_flush(p, Table).rows) <= MaxSeq

\* CRUDHandler.__init__(path, new): a new Session; drop_all and create_all
\* when new is true, which is the default.
crud_init ==
    /\ impl = "crud"
    /\ \E new \in BOOLEAN :
        /\ store' = IF new THEN {} ELSE store
        /\ last' = [op |-> "__init__", args |-> new, raised |-> Ok]
    /\ pending' = <<>>
    /\ txn' = {}
    /\ db' = "active"
    /\ UNCHANGED <<impl, pc, closes, outcome, csv, saved, erased, seq>>

\* CRUDHandler.add
crud_add ==
    /\ impl = "crud"
    /\ \E data \in crud_ExpenseAdd :
        LET new == [id |-> None, date |-> data.date, type |-> data.type,
                    amount |-> AmountText(data.amount),
                    justification |-> data.justification]
            all == Append(pending, new)
        IN IF db = "inactive" THEN Inactive("add", data)
           ELSE IF ~crud_flush(pending, Table).ok THEN crud_FlushFails("add", data)
           ELSE /\ crud_Room(all)
                /\ store' = crud_flush(all, Table).rows
                /\ pending' = <<>>
                /\ txn' = {}
                /\ last' = [op |-> "add", args |-> data, raised |-> Ok, ret |-> None]
                /\ UNCHANGED <<impl, pc, closes, outcome, csv, saved, erased, seq, db>>

\* CRUDHandler.query(start, end): every row when a date is None, else the
\* rows between the dates; ordered by date.
crud_query_rows(start, end, rows) ==
    IF start = None \/ end = None
    THEN rows
    ELSE { r \in rows : The(start) <= r.date /\ r.date <= The(end) }

crud_query ==
    /\ impl = "crud"
    /\ \E w \in Windows :
        LET params == [start |-> w[1], end |-> w[2]] IN
        IF db = "inactive" THEN Inactive("query", params)
        ELSE IF ~crud_flush(pending, Table).ok THEN crud_FlushFails("query", params)
        ELSE /\ txn' = crud_flush(pending, Table).rows \ store
             /\ pending' = <<>>
             /\ \E ret \in OrderByDate(crud_query_rows(w[1], w[2], store \cup txn')) :
                    last' = [op |-> "query", args |-> params, raised |-> Ok, ret |-> ret]
             /\ UNCHANGED <<impl, pc, closes, outcome, csv, saved, erased, store, seq, db>>

\* The CSV records of this handler: id, date, type, amount, justification.
crud_CsvRows ==
    { <<ToString(i), DateText(1), "R", AmountText(1), "j">> : i \in Ids }
    \cup { <<"1", DateText(1)>>, <<"1", "01/12/2023", "R", AmountText(1), "j">> }

crud_Files ==
    {<<>>} \cup { <<a>> : a \in crud_CsvRows }
    \cup { <<a, b>> : a \in {r \in crud_CsvRows : Len(r) = 5 /\ IsDateText(r[2])},
                      b \in crud_CsvRows }

\* What building Expense(id=row[0], date=str2date(row[1]), ...,
\* justification=row[4]) raises for one record.
crud_RowError(row) ==
    IF Len(row) < 2 THEN "IndexError"
    ELSE IF ~IsDateText(row[2]) THEN "ValueError"
    ELSE IF Len(row) < 5 THEN "IndexError"
    ELSE Ok

\* The store turns the id text into the integer it spells.
ParseId(t) == CHOOSE i \in Ids : ToString(i) = t

crud_RowObject(row) ==
    [id |-> Some(ParseId(row[1])), date |-> str2date(row[2]), type |-> row[3],
     amount |-> row[4], justification |-> row[5]]

crud_Staged(file) ==
    LET bad == { i \in DOMAIN file : crud_RowError(file[i]) # Ok }
        n == IF bad = {} THEN Len(file)
             ELSE (CHOOSE i \in bad : \A j \in bad : i <= j) - 1
    IN [i \in 1..n |-> crud_RowObject(file[i])]

crud_LoadError(file) ==
    LET bad == { i \in DOMAIN file : crud_RowError(file[i]) # Ok }
    IN IF bad = {} THEN Ok
       ELSE crud_RowError(file[CHOOSE i \in bad : \A j \in bad : i <= j])

\* CRUDHandler.load: the id of every record is read from the file.
crud_load ==
    /\ impl = "crud"
    /\ \E csvfile \in {None} \cup {Some(f) : f \in crud_Files} :
        IF csvfile = None
        THEN /\ last' = [op |-> "load", args |-> csvfile, raised |-> "FileNotFoundError"]
             /\ UNCHANGED <<impl, pc, closes, outcome, csv, saved, erased, store, seq, db, pending, txn>>
        ELSE LET file == The(csvfile)
                 all == pending \o crud_Staged(file)
             IN /\ crud_Room(all)
                /\ IF crud_LoadError(file) # Ok
                   THEN /\ pending' = all
                        /\ last' = [op |-> "load", args |-> csvfile,
                                    raised |-> crud_LoadError(file)]
                        /\ UNCHANGED <<impl, pc, closes, outcome, csv, saved, erased, store, seq, db, txn>>
                   ELSE IF db = "inactive"
                   THEN /\ pending' = all
                        /\ last' = [op |-> "load", args |-> csvfile,
                                    raised |-> "PendingRollbackError"]
                        /\ UNCHANGED <<impl, pc, closes, outcome, csv, saved, erased, store, seq, db, txn>>
                   ELSE IF ~crud_flush(all, Table).ok
                   THEN crud_FlushFails("load", csvfile)
                   ELSE /\ store' = crud_flush(all, Table).rows
                        /\ pending' = <<>>
                        /\ txn' = {}
                        /\ last' = [op |-> "load", args |-> csvfile, raised |-> Ok]
                        /\ UNCHANGED <<impl, pc, closes, outcome, csv, saved, erased, seq, db>>

-----------------------------------------------------------------------------

Next ==
    \/ init \/ close \/ add \/ query \/ summarize \/ load \/ clear
    \/ update \/ remove
    \/ crud_init \/ crud_add \/ crud_query \/ crud_load

Spec == Init /\ [][Next]_vars

\* A handler constructed on a database that already holds rows: every table
\* of at most MaxRows rows with different ids and one type, the category
\* possibly the empty string (the default of ExpenseBase.category), and a sequence that has
\* handed out the largest id last.
StoredRows ==
    [id : Ids, date : Dates, type : {"R"}, category : Categories \cup {""},
     amount : Amounts, description : Descriptions]

StoredTables ==
    UNION { { { [id |-> i, date |-> f[i].date, type |-> f[i].type,
                 category |-> f[i].category, amount |-> f[i].amount,
                 description |-> f[i].description] : i \in S }
              : f \in [S -> StoredRows] }
            : S \in { T \in SUBSET Ids : Cardinality(T) <= MaxRows } }

InitStored ==
    /\ impl = "crud_handler"
    /\ store \in StoredTables
    /\ seq = MaxId(store)
    /\ db = "active"
    /\ pending = <<>>
    /\ txn = {}
    /\ last = [op |-> "__init__", args |-> None, raised |-> Ok]
    /\ erased = FALSE
    /\ csv = None
    /\ saved = None
    /\ pc = "idle"
    /\ closes = 0
    /\ outcome = "none"

\* Saving, erasing and loading on such a handler.
NextSave == save \/ clear \/ load \/ close

SpecSave == InitStored /\ [][NextSave]_vars

-----------------------------------------------------------------------------
(* modules/api.py *)

\* get_ch, up to its yield: a request that depends on the handler starts,
\* and a CRUDHandler is constructed for it.
get_ch ==
    /\ impl = "crud_handler"
    /\ pc = "idle"
    /\ CRUDHandler_init
    /\ pc' = "yield"
    /\ closes' = 0
    /\ outcome' = "none"

\* The endpoint of the request: one call on the handler get_ch yielded,
\* which returns or raises. The endpoints tried are those of add, query,
\* summarize, load, update, remove and erase.
endpoint ==
    /\ pc = "yield"
    /\ last.op = "__init__"
    /\ (add \/ query \/ summarize \/ load \/ update \/ remove \/ clear)

\* Mutant: get_ch without try/finally, "yield ch" followed by "ch.close()":
\* an exception thrown in at the yield skips the close.
get_ch_no_finally ==
    /\ pc = "yield"
    /\ pc' = "idle"
    /\ outcome' = IF last.op = "__init__" THEN "none" ELSE last.raised
    /\ IF last.raised = Ok
       THEN CRUDHandler_close /\ closes' = closes + 1
       ELSE UNCHANGED <<impl, store, seq, db, pending, txn, last, erased, csv, saved, closes>>

\* get_ch, after its yield: the scope of the request ends, because the
\* endpoint returned, because it raised, or because the request was refused
\* before the endpoint ran; the finally clause closes the handler.
get_ch_finally ==
    /\ pc = "yield"
    /\ pc' = "idle"
    /\ outcome' = IF last.op = "__init__" THEN "none" ELSE last.raised
    /\ CRUDHandler_close
    /\ closes' = closes + 1

\* Requests served one after the other, each on a handler of its own.
InitApi == Init /\ impl = "crud_handler"

NextApi == get_ch \/ endpoint \/ get_ch_finally

SpecApi == InitApi /\ [][NextApi]_vars

-----------------------------------------------------------------------------
(* modules/cli.py and the parameters modules/api.py reads *)

\* What the user types at the four prompts of _get_query_parameters: a date
\* text or nothing for start and end, and for types and categories the
\* items between the commas (no item: nothing was typed). The inputs tried:
\* no date, one date alone, the window of the last day; no type or one; no
\* category, one, or two.
CliInputs ==
    [start : {"", DateText(2)},
     end : {"", DateText(2)},
     types : {<<>>, <<"R">>},
     cat : {<<>>, <<"gen">>, <<"test", "gen">>}]

\* _get_query_parameters: the query string, as the sequence of its
\* name=value pairs. A prompt left empty adds no pair; every item of the
\* types prompt goes under "types" and every item of the categories prompt
\* under "cat".
get_query_parameters(in) ==
    LET start == IF in.start # "" THEN << <<"start", in.start>> >> ELSE <<>>
        end == IF in.end # "" THEN << <<"end", in.end>> >> ELSE <<>>
        types == [i \in DOMAIN in.types |-> <<"types", in.types[i]>>]
        cat == [i \in DOMAIN in.cat |-> <<"cat", in.cat[i]>>]
    IN start \o end \o types \o cat

\* Query(...) = None for Optional[str]: the value given under the name, None
\* when the query string has no such name.
Query_str(qparams, name) ==
    LET at == { i \in DOMAIN qparams : qparams[i][1] = name }
    IN IF at = {} THEN None
       ELSE Some(qparams[CHOOSE i \in at : \A j \in at : j <= i][2])

\* Query(...) = None for Optional[List[str]]: every value given under the
\* name, None when the query string has no such name.
Query_list(qparams, name) ==
    LET at == { i \in DOMAIN qparams : qparams[i][1] = name }
    IN IF at = {} THEN None ELSE Some({ qparams[i][2] : i \in at })

\* The QueryParameters the endpoints query and summarize build from the
\* query string: they read start, end, types and categories, and ignore
\* every other name. The date texts are parsed into dates.
api_QueryParameters(qparams) ==
    LET date(o) == IF o = None THEN None ELSE Some(str2date(The(o)))
    IN [start |-> date(Query_str(qparams, "start")),
        end |-> date(Query_str(qparams, "end")),
        types |-> Query_list(qparams, "types"),
        categories |-> Query_list(qparams, "categories")]

\* cli.query: GET /query with the query string; the request is served on a
\* handler of its own (get_ch), and the rows of the response are printed.
cli_query ==
    /\ impl = "crud_handler"
    /\ pc = "idle"
    /\ \E in \in CliInputs :
        LET qparams == get_query_parameters(in)
            params == api_QueryParameters(qparams)
        IN \E ret \in OrderByDate(Where(params, store)) :
              last' = [op |-> "cli.query", args |-> in, qparams |-> qparams,
                       raised |-> Ok, ret |-> ret]
    /\ pending' = <<>>
    /\ txn' = {}
    /\ db' = "active"
    /\ closes' = 1
    /\ outcome' = Ok
    /\ UNCHANGED <<impl, pc, csv, saved, erased, store, seq>>

\* cli.summarize: GET /summarize with the query string.
cli_summarize ==
    /\ impl = "crud_handler"
    /\ pc = "idle"
    /\ \E in \in CliInputs :
        LET qparams == get_query_parameters(in)
            params == api_QueryParameters(qparams)
        IN last' = [op |-> "cli.summarize", args |-> in, qparams |-> qparams,
                    raised |-> Ok, ret |-> summarize_result(params, store)]
    /\ pending' = <<>>
    /\ txn' = {}
    /\ db' = "active"
    /\ closes' = 1
    /\ outcome' = Ok
    /\ UNCHANGED <<impl, pc, csv, saved, erased, store, seq>>

\* The client against a server whose table holds any rows of at most
\* MaxRows different ids.
ServedTables ==
    UNION { { { [id |-> i, date |-> f[i].date, type |-> f[i].type,
                 category |-> f[i].category, amount |-> f[i].amount,
                 description |-> f[i].description] : i \in S }
              : f \in [S -> ExpenseAdd] }
            : S \in { T \in SUBSET Ids : Cardinality(T) <= MaxRows } }

InitCli ==
    /\ impl = "crud_handler"
    /\ store \in ServedTables
    /\ seq = MaxId(store)
    /\ db = "active"
    /\ pending = <<>>
    /\ txn = {}
    /\ last = [op |-> "__init__", args |-> None, raised |-> Ok]
    /\ erased = FALSE
    /\ csv = None
    /\ saved = None
    /\ pc = "idle"
    /\ closes = 0
    /\ outcome = "none"

NextCli == cli_query \/ cli_summarize

SpecCli == InitCli /\ [][NextCli]_vars

-----------------------------------------------------------------------------
(* Properties *)

Returned(op) == last.op = op /\ last.raised = Ok

\* A parameter of the last call; None when the call has no such parameter.
Arg(f) == IF f \in DOMAIN last.args THEN last.args[f] ELSE None

Elements(s) == { s[i] : i \in DOMAIN s }
IdsOf(rows) == { r.id : r \in rows }
Payload(r) == [f \in DOMAIN r \ {"id"} |-> r[f]]

\* Row r passes the filters that are present in the last call's parameters.
InWindow(r) ==
    (Arg("start") # None /\ Arg("end") # None)
        => (The(Arg("start")) <= r.date /\ r.date <= The(Arg("end")))
InTypes(r) == Arg("types") # None => r.type \in The(Arg("types"))
InCategories(r) == Arg("categories") # None => r.category \in The(Arg("categories"))
Satisfies(r) == InWindow(r) /\ InTypes(r) /\ InCategories(r)

RECURSIVE Total(_)
Total(rows) ==
    IF rows = {} THEN 0
    ELSE LET r == CHOOSE x \in rows : \A y \in rows : x.id <= y.id
         IN Total(rows \ {r}) + r.amount

\* C1: a query with start and end present and no other filter returns
\* exactly the rows of the table whose date d has start <= d <= end, each
\* once: both bounds are inclusive.
C1_QueryWindowInclusive ==
    (/\ Returned("query")
     /\ Arg("start") # None /\ Arg("end") # None
     /\ Arg("types") = None /\ Arg("categories") = None)
    => /\ Elements(last.ret) =
            { r \in Table : The(Arg("start")) <= r.date /\ r.date <= The(Arg("end")) }
       /\ Len(last.ret) = Cardinality(Elements(last.ret))

\* A window of one day returned a row of that day and left out a row of
\* another day.
C1_Witness ==
    /\ Returned("query")
    /\ Arg("start") # None /\ Arg("start") = Arg("end")
    /\ Arg("types") = None /\ Arg("categories") = None
    /\ \E i \in DOMAIN last.ret : last.ret[i].date = The(Arg("end"))
    /\ \E r \in Table : r \notin Elements(last.ret)

\* C2: query returns exactly the rows that pass every filter that is
\* present (types, categories, and the window only when both its dates
\* are present); a single date is ignored.
C2_QueryFiltersConjunction ==
    Returned("query")
    => /\ Elements(last.ret) = { r \in Table : Satisfies(r) }
       /\ Len(last.ret) = Cardinality(Elements(last.ret))

\* Only end was given and a row after it came back, while the types and
\* categories filters, both present, kept another row out.
C2_Witness ==
    /\ Returned("query")
    /\ Arg("start") = None /\ Arg("end") # None
    /\ Arg("types") # None /\ Arg("categories") # None
    /\ \E i \in DOMAIN last.ret : last.ret[i].date > The(Arg("end"))
    /\ \E r \in Table : r \notin Elements(last.ret)

\* C3: the sequence query returns is ordered by non-decreasing date.
C3_QueryOrderedByDate ==
    Returned("query")
    => \A i, j \in DOMAIN last.ret : i < j => last.ret[i].date <= last.ret[j].date

\* The row inserted later, with the larger id, came back first.
C3_Witness ==
    /\ Returned("query")
    /\ Len(last.ret) = 2
    /\ last.ret[1].id > last.ret[2].id
    /\ last.ret[1].date < last.ret[2].date

C5_SummarizeKeyedByCategoryAndType ==
    Returned("summarize")
    => \A i, j \in DOMAIN last.ret :
          i # j => [f \in DOMAIN last.ret[i] \ {"sum"} |-> last.ret[i][f]]
                   # [f \in DOMAIN last.ret[j] \ {"sum"} |-> last.ret[j][f]]

\* C6: a successful add puts exactly one more row in the table; the row
\* carries the payload and an id no row had; the other rows are unchanged.
C6_AddInsertsOneRow ==
    [][ (last'.op = "add" /\ last'.raised = Ok)
        => \E new \in Table' :
              /\ new.id \notin IdsOf(Table)
              /\ Payload(new) = last'.args
              /\ Table' = Table \cup {new} ]_vars

\* C7 as claimed: add returns the stored record, id included.
C7_AddReturnsStoredRecord ==
    Returned("add")
    => \E r \in store : Payload(r) = last.args /\ last.ret = Some(r)

\* C7 as amended: add stores the record under an id of the store's choosing
\* and returns nothing.
C7_AddReturnsNothing ==
    Returned("add")
    => /\ last.ret = None
       /\ \E r \in store : Payload(r) = last.args /\ \A q \in store : q.id <= r.id

C7_Witness ==
    /\ Returned("add")
    /\ impl = "crud_handler"
    /\ last.ret = None
    /\ Cardinality(store) = 2

\* The largest id handed out since the sequence was last reset: the value of
\* expenses_id_seq, and for SQLite the largest rowid of the table.
HighWater == IF impl = "crud_handler" THEN seq ELSE MaxId(Table)

\* C8: no two rows of the table have the same id, and every id a step
\* assigns is larger than every id assigned since the last erase.
C8_IdsUniqueAndIncreasing ==
    [][ /\ \A r, q \in Table' : r.id = q.id => r = q
        /\ \A i \in IdsOf(Table') \ IdsOf(Table) : i > HighWater ]_vars

\* C9: the add that follows an erase assigns id 1, and an add that follows
\* an add assigns the next id, so the adds after an erase assign 1, 2, 3, ...
C9_EraseRestartsIds ==
    [][ (last'.op = "add" /\ last'.raised = Ok)
        => /\ Returned("clear") => IdsOf(Table') \ IdsOf(Table) = {1}
           /\ Returned("add") => IdsOf(Table') \ IdsOf(Table) = {MaxId(Table) + 1} ]_vars

\* After an erase that discarded ids, two adds in a row: the rows have ids
\* 1 and 2.
C9_Witness ==
    /\ Returned("add")
    /\ erased
    /\ IdsOf(store) = {1, 2}
    /\ seq = 2

\* C10: erase always succeeds, and leaves the table empty and the sequence
\* restarted, which makes a second erase change nothing.
C10_EraseAlwaysSucceeds ==
    last.op = "clear"
    => /\ last.raised = Ok
       /\ store = {} /\ txn = {} /\ pending = <<>>
       /\ seq = 0

\* The CSV record that spells row r: the five fields of crud_handler.py, or
\* the id and the four fields of crud.py.
RecordOf(r) ==
    IF "category" \in DOMAIN r THEN save_record(r)
    ELSE <<ToString(r.id), DateText(r.date), r.type, AmountText(r.amount), r.justification>>

\* C11: load is atomic. A load that fails leaves the table as it was, and a
\* row enters the table only through the call that was given it: a
\* successful add with its payload, a successful load whose file holds its
\* record, or a successful update of its id. Nothing a failed load staged is
\* stored by a later call.
C11_LoadAtomic ==
    [][ /\ (last'.op = "load" /\ last'.raised # Ok) => Table' = Table
        /\ \A r \in Table' \ Table :
              /\ last'.raised = Ok
              /\ \/ last'.op = "add" /\ Payload(r) = last'.args
                 \/ /\ last'.op = "load"
                    /\ \E i \in DOMAIN The(last'.args) : The(last'.args)[i] = RecordOf(r)
                 \/ last'.op = "update" /\ r.id = last'.args[1] ]_vars

\* A record load must reject: not five fields, a date that is not
\* YYYY-MM-DD, or an amount that is no number.
Malformed(row) ==
    \/ Len(row) # 5
    \/ ~IsDateText(row[1])
    \/ ~IsAmountText(row[4])

\* C12: load fails in two classes only. A file that cannot be opened raises
\* FileNotFoundError; a file with a malformed record raises CRUDHandlerError;
\* a load of a file that can be opened raises nothing else.
C12_LoadErrorClasses ==
    last.op = "load"
    => /\ last.args = None => last.raised = "FileNotFoundError"
       /\ last.args # None => last.raised \in {Ok, "CRUDHandlerError"}
       /\ (/\ impl = "crud_handler"
           /\ last.args # None
           /\ \E i \in DOMAIN The(last.args) : Malformed(The(last.args)[i]))
          => last.raised = "CRUDHandlerError"

\* C13: a successful load of a file of n records puts exactly n more rows in
\* the table, under the next n ids of the store (none taken from the file),
\* and leaves the rows that were there unchanged; and a load that succeeded
\* succeeds again when it is repeated with the same file.
C13_LoadAppendsSystemIds ==
    [][ /\ (last'.op = "load" /\ last'.raised = Ok)
           => LET n == Len(The(last'.args))
              IN /\ Table \subseteq Table'
                 /\ Cardinality(Table' \ Table) = n
                 /\ IdsOf(Table' \ Table) = (HighWater + 1)..(HighWater + n)
        /\ (Returned("load") /\ last'.op = "load" /\ last'.args = last.args)
           => last'.raised = Ok ]_vars

\* How many rows of a table carry the payload p.
Copies(p, rows) == Cardinality({ r \in rows : Payload(r) = p })

\* C14: save, erase, load of the saved file: the load succeeds and the table
\* then holds the payloads the table held when save was called, each as many
\* times (the ids may differ).
C14_SaveEraseLoadRoundTrip ==
    [][ (/\ Returned("clear")
         /\ saved # None /\ csv # None
         /\ last'.op = "load" /\ last'.args = csv)
        => /\ last'.raised = Ok
           /\ \A r \in Table' \cup The(saved) :
                 Copies(Payload(r), Table') = Copies(Payload(r), The(saved)) ]_vars

\* C15: update of an id that is not stored fails with the not-found error
\* and leaves every stored row as it was.
C15_UpdateNotFound ==
    [][ (last'.op = "update" /\ last'.args[1] \notin IdsOf(Table))
        => /\ last'.raised = "CRUDHandlerError"
           /\ Table' = Table
           /\ store' = store ]_vars

\* An update of an id no row has, on a table that holds another row, was
\* refused.
C15_Witness ==
    /\ last.op = "update"
    /\ last.raised = "CRUDHandlerError"
    /\ store # {}
    /\ last.args[1] \notin IdsOf(store)

\* C16: a successful update of a stored id leaves one row of that id, whose
\* fields are the patch's where the patch has them and the old row's where
\* it does not, and leaves every other row unchanged; so a patch with no
\* field changes nothing and a patch with every field overwrites all five.
C16_UpdatePatchesPresentFields ==
    [][ (last'.op = "update" /\ last'.raised = Ok)
        => LET ID == last'.args[1]
               data == last'.args[2]
           IN /\ \E old \in Table, new \in Table' :
                    /\ old.id = ID /\ new.id = ID
                    /\ \A r \in Table' : r.id = ID => r = new
                    /\ \A f \in DOMAIN data :
                          new[f] = IF data[f] = None THEN old[f] ELSE The(data[f])
              /\ \A r \in Table : r.id # ID => r \in Table' ]_vars

\* A patch with a date and nothing else was applied: the row has the patch's
\* date and kept an amount and a type that the full patch would have changed.
C16_Witness ==
    /\ Returned("update")
    /\ last.args[2].date # None /\ last.args[2].amount = None
    /\ Cardinality(store) = 2
    /\ \E r \in store :
          /\ r.id = last.args[1]
          /\ r.date = The(last.args[2].date)
          /\ r.amount # The(ExpenseUpdateAll.amount)
          /\ r.type # The(ExpenseUpdateAll.type)

\* C17: remove is all-or-nothing: when an id of the list is not stored, remove
\* fails with the not-found error and deletes no row, the rows of the listed
\* ids that are stored included.
C17_RemoveAllOrNothing ==
    [][ (last'.op = "remove" /\ \E i \in Range(last'.args) : i \notin IdsOf(Table))
        => /\ last'.raised = "CRUDHandlerError"
           /\ Table' = Table
           /\ store' = store ]_vars

\* A list whose first id is stored and whose second is not was refused, and
\* the row of the first id is still there.
C17_Witness ==
    /\ last.op = "remove"
    /\ last.raised = "CRUDHandlerError"
    /\ Len(last.args) = 2
    /\ last.args[1] \in IdsOf(store)
    /\ last.args[2] \notin IdsOf(store)

\* C18: when every listed id is stored, a remove that succeeds leaves no row
\* with a listed id and leaves every other row stored and unchanged.
C18_RemoveDeletesListedRows ==
    [][ (last'.op = "remove" /\ last'.raised = Ok)
        => /\ Range(last'.args) \subseteq IdsOf(Table)
           /\ IdsOf(Table') \cap Range(last'.args) = {}
           /\ \A r \in Table : r.id \notin Range(last'.args) => r \in Table' ]_vars

\* One of two rows was removed: the other is still stored.
C18_Witness ==
    /\ Returned("remove")
    /\ Len(last.args) = 1
    /\ Cardinality(store) = 1
    /\ last.args[1] \notin IdsOf(store)

\* C19: constructing a handler, with or without the flag, deletes no
\* committed row: the rows committed before are the rows committed after,
\* so a query on the new handler still returns them.
C19_ConstructorKeepsRows ==
    [][ last'.op = "__init__" => store' = store ]_vars

\* C20: query, summarize and save are read-only: the call leaves the rows of
\* the table, the committed rows and the next id the store would assign as
\* they were.
C20_ReadsChangeNothing ==
    [][ last'.op \in {"query", "summarize", "save"}
        => /\ Table' = Table
           /\ store' = store
           /\ HighWater' = HighWater ]_vars

\* C21: the handler acquired for an API request is closed exactly once when
\* the scope of the request ends, whether the endpoint returned, raised, or
\* never ran: while the request runs its handler has not been closed, and
\* when the scope ends the handler has been closed once, by a close that
\* succeeded and left nothing in its session.
C21_HandlerClosedOnce ==
    [][ /\ pc' = "yield" => closes' = 0
        /\ (pc = "yield" /\ pc' = "idle")
           => /\ closes' = 1
              /\ last'.op = "close" /\ last'.raised = Ok
              /\ pending' = <<>> /\ txn' = {} /\ db' = "active" ]_vars

\* A request whose endpoint raised the not-found error has ended, and its
\* handler has been closed once.
C21_Witness ==
    /\ pc = "idle"
    /\ outcome = "CRUDHandlerError"
    /\ closes = 1
    /\ last.op = "close"

\* The filters the user typed at the prompts, as sets: a row passes when it
\* is inside the window (only when both dates were typed) and its type and
\* its category are among those typed (when any was typed).
Entered(in, r) ==
    /\ (in.start # "" /\ in.end # "")
          => (str2date(in.start) <= r.date /\ r.date <= str2date(in.end))
    /\ in.types # <<>> => r.type \in Elements(in.types)
    /\ in.cat # <<>> => r.category \in Elements(in.cat)

\* C22: the query string of the command-line client carries every filter
\* the user typed under the name the API reads (start, end, types,
\* categories) and nothing under another name, so the query of the client
\* returns exactly the rows that pass the typed filters and its summarize
\* the sums of the groups of those rows; a prompt left empty restricts
\* nothing.
C22_CliCarriesEveryFilter ==
    last.op \in {"cli.query", "cli.summarize"}
    => LET in == last.args
           found == { r \in store : Entered(in, r) }
       IN /\ \A i \in DOMAIN last.qparams :
                last.qparams[i][1] \in {"start", "end", "types", "categories"}
          /\ \A i \in DOMAIN in.cat :
                \E k \in DOMAIN last.qparams : last.qparams[k] = <<"categories", in.cat[i]>>
          /\ \A i \in DOMAIN in.types :
                \E k \in DOMAIN last.qparams : last.qparams[k] = <<"types", in.types[i]>>
          /\ in.start # "" => \E k \in DOMAIN last.qparams : last.qparams[k] = <<"start", in.start>>
          /\ in.end # "" => \E k \in DOMAIN last.qparams : last.qparams[k] = <<"end", in.end>>
          /\ last.op = "cli.query" => Elements(last.ret) = found
          /\ last.op = "cli.summarize"
             => LET pairs == { <<r.category, r.type>> : r \in found }
                IN /\ Len(last.ret) = Cardinality(pairs)
                   /\ \E f \in [DOMAIN last.ret -> pairs] :
                         /\ \A i, j \in DOMAIN f : i # j => f[i] # f[j]
                         /\ \A i \in DOMAIN f :
                               /\ last.ret[i].type = f[i][2]
                               /\ last.ret[i].sum =
                                     Total({ r \in found : <<r.category, r.type>> = f[i] })

====
